---- MODULE Spec2Model ----
(***************************************************************************)
(* slack-emoji-exporter: the rate-limited emoji.add calls of SlackClient   *)
(* (src/src/slack.rs) and the export / import flows (src/src/actions.rs).  *)
(*                                                                         *)
(* One behaviour is one invocation of one entry point, chosen in Init:     *)
(*   op = "upload"     SlackClient::upload                                 *)
(*   op = "add_alias"  SlackClient::add_alias                              *)
(*   op = "export"     actions::export                                     *)
(*   op = "import"     actions::import                                     *)
(* The remote server, the file system, the listing paginator               *)
(* (crate::emoji) and the archive (crate::archive) are the environment:    *)
(* their answers are drawn from small sets.                                *)
(***************************************************************************)
EXTENDS Integers, Sequences, FiniteSets, TLC

VARIABLES
    op,          \* the entry point this run invokes
    \* ---- SlackClient::upload / SlackClient::add_alias ----
    pc,          \* position inside the call
    try_count,   \* `let mut try_count: u8 = 0`
    response,    \* the response of the request just sent
    wait_time_s, \* the parsed retry-after value about to be slept
    result,      \* the value the loop broke with
    outcome,     \* what the call returned ("running" until it returns)
    requests,    \* number of requests handed to the transport
    responses,   \* the responses received, in order
    waits,       \* durations of the backoff sleeps, in order
    cooldowns,   \* durations of the sleeps after the loop, in order
    reads,       \* number of fs::read calls on the image file
    uploads,     \* names of the emoji upload was called for
    \* ---- actions::export ----
    exPc, exResult,
    total,       \* number of records the remote listing holds
    pagState,    \* paginator: "active", "failed" or "exhausted"
    pagBuf,      \* records of the fetched page not yet yielded
    pagLast,     \* the fetched page carried the end-of-list marker
    pagYielded,  \* records yielded so far
    fetches,     \* listing requests issued
    emoji,       \* the record the loop currently holds (0: none)
    downloads,   \* records a download was attempted for, in order
    dlFailed,    \* records whose download failed
    reported,    \* listing failures written to stderr
    \* ---- actions::import ----
    imPc, imResult,
    dirExists,   \* what emoji_directory.exists() answers
    scan,        \* the items stream_emoji_files() yields, in order
    scanPos,     \* items taken from the scan so far
    conflicts,   \* names reported as conflicting, in order
    \* ---- SlackClient::download ----
    dlPc, dlResult,
    fileBefore,  \* the target file before the call
    file,        \* the target file: whether it exists and its content
    flushed,     \* emoji_file.flush() has completed
    chunks,      \* the chunks of the complete response body
    errAt,       \* which read of the body stream fails (0: none)
    streamPos,   \* items taken from the body stream so far
    \* ---- an upload followed by an add_alias against the same answers ----
    first        \* what the finished upload call did

reqVars == <<pc, try_count, response, wait_time_s, result, outcome, requests,
             responses, waits, cooldowns, reads, uploads>>
exVars  == <<exPc, exResult, total, pagState, pagBuf, pagLast, pagYielded,
             fetches, emoji, downloads, dlFailed, reported>>
imVars  == <<imPc, imResult, dirExists, scan, scanPos, conflicts>>
dlVars  == <<dlPc, dlResult, fileBefore, file, flushed, chunks, errAt, streamPos>>
vars    == <<op, reqVars, exVars, imVars, dlVars, first>>

----------------------------------------------------------------------------
(* Bounds of the model *)

\* longest retry-after header value the server sends
MaxHeaderLen == 2
\* most records the remote listing holds
MaxRecords == 3
\* most items the archive scan yields
MaxEntries == 3
\* records per listing page (export asks for 100; scaled down so that
\* MaxRecords spans several pages)
PageSize == 2

(* Program constants *)

\* `if try_count == 3`
MaxTries == 3
\* `sleep(Duration::from_secs(1))` after the loop
CoolDownSecs == 1

----------------------------------------------------------------------------
(* The server's answers *)

\* characters a retry-after header value is made of
HeaderChars == {"0", "2", "x"}
HeaderValues == UNION {[1..n -> HeaderChars] : n \in 0..MaxHeaderLen}

NoHeader == [present |-> FALSE, value |-> <<>>]
RetryAfterHeaders == {[present |-> TRUE, value |-> v] : v \in HeaderValues}

\* MinimalSlackEndpointResponse { error: Option<String>, ok: bool };
\* error = "None" stands for Option::None
MinimalSlackEndpointResponse ==
    [parses : {TRUE}, ok : BOOLEAN, error : {"None", "error_name_taken"}]
\* a body response.json() cannot deserialize
UnparseableBody == [parses |-> FALSE, ok |-> FALSE, error |-> "None"]
Bodies == MinimalSlackEndpointResponse \cup {UnparseableBody}
RateLimitedBody == [parses |-> TRUE, ok |-> FALSE, error |-> "ratelimited"]

\* what the transport can hand back for one request
Responses ==
    {[retry_after |-> NoHeader, body |-> b] : b \in Bodies}
    \cup {[retry_after |-> h, body |-> RateLimitedBody] : h \in RetryAfterHeaders}
NoResponse == [retry_after |-> NoHeader, body |-> UnparseableBody]

----------------------------------------------------------------------------
(* wait_time_s.to_str()?.parse::<u64>()? *)

DecimalDigits == <<"0", "1", "2", "3", "4", "5", "6", "7", "8", "9">>
IsDigit(c) == \E i \in 1..10 : DecimalDigits[i] = c
DigitVal(c) == (CHOOSE i \in 1..10 : DecimalDigits[i] = c) - 1

RECURSIVE DecimalValue(_)
DecimalValue(s) ==
    IF s = <<>> THEN 0
    ELSE 10 * DecimalValue(SubSeq(s, 1, Len(s) - 1)) + DigitVal(s[Len(s)])

ParseU64Lenient(s) ==
    IF Len(s) > 0 /\ \A i \in 1..Len(s) : IsDigit(s[i])
    THEN [ok |-> TRUE, value |-> DecimalValue(s)]
    ELSE [ok |-> TRUE, value |-> 0]
\* u64::from_str: empty input and any non-digit are errors
ParseU64(s) ==
    IF Len(s) > 0 /\ \A i \in 1..Len(s) : IsDigit(s[i])
    THEN [ok |-> TRUE, value |-> DecimalValue(s)]
    ELSE [ok |-> FALSE, value |-> 0]

----------------------------------------------------------------------------
(* SlackClient::upload *)

NoResult == [kind |-> "none", ok |-> FALSE, error |-> "None"]
\* `break Err(format!("Could not successfully ... within 3 tries ..."))`
ExhaustedResult == [kind |-> "Err", ok |-> FALSE, error |-> "None"]
\* `break Ok(response.json::<MinimalSlackEndpointResponse>().await?)`
OkResult(body) == [kind |-> "Ok", ok |-> body.ok, error |-> body.error]

\* the emoji upload is called for
UploadNames == {"my_custom_logo"}

CallUpload ==
    /\ op = "upload" /\ pc = "idle"
    /\ \E name \in UploadNames : uploads' = Append(uploads, name)
    /\ try_count' = 0
    /\ pc' = "read"
    /\ UNCHANGED <<op, response, wait_time_s, result, outcome, requests,
                   responses, waits, cooldowns, reads, exVars, imVars,
                   dlVars, first>>

\* `Part::bytes(fs::read(emoji_filepath.clone()).await?)`
UploadRead ==
    /\ op = "upload" /\ pc = "read"
    /\ reads' = reads + 1
    /\ \E readOk \in BOOLEAN :
         IF readOk
         THEN pc' = "send" /\ UNCHANGED outcome
         ELSE pc' = "done" /\ outcome' = "ReadError"
    /\ UNCHANGED <<op, try_count, response, wait_time_s, result, requests,
                   responses, waits, cooldowns, uploads, exVars, imVars,
                   dlVars, first>>

\* `self.client.post(..).multipart(form).send().await?`
UploadSend ==
    /\ op = "upload" /\ pc = "send"
    /\ requests' = requests + 1
    /\ \/ /\ pc' = "done" /\ outcome' = "SendError"
          /\ UNCHANGED <<response, responses>>
       \/ \E r \in Responses :
            /\ response' = r
            /\ responses' = Append(responses, r)
            /\ pc' = "response"
            /\ UNCHANGED outcome
    /\ UNCHANGED <<op, try_count, wait_time_s, result, waits, cooldowns,
                   reads, uploads, exVars, imVars, dlVars, first>>

UploadTriesExhaustedLate(tc) == tc > MaxTries
\* `if try_count == 3`
UploadTriesExhausted(tc) == tc = MaxTries

\* the body of `if let Some(wait_time_s) = response.headers().get("retry-after")`
\* and the `break Ok(..)` after it
UploadResponse ==
    /\ op = "upload" /\ pc = "response"
    /\ IF response.retry_after.present
       THEN IF UploadTriesExhausted(try_count)
            THEN /\ result' = ExhaustedResult
                 /\ pc' = "cooldown"
                 /\ UNCHANGED <<try_count, wait_time_s, outcome>>
            ELSE /\ try_count' = (try_count + 1) % 256
                 /\ LET parsed == ParseU64(response.retry_after.value) IN
                      IF parsed.ok
                      THEN /\ wait_time_s' = parsed.value
                           /\ pc' = "sleep"
                           /\ UNCHANGED outcome
                      ELSE /\ pc' = "done"
                           /\ outcome' = "HeaderError"
                           /\ UNCHANGED wait_time_s
                 /\ UNCHANGED result
       ELSE /\ IF response.body.parses
               THEN /\ result' = OkResult(response.body)
                    /\ pc' = "cooldown"
                    /\ UNCHANGED outcome
               ELSE /\ pc' = "done"
                    /\ outcome' = "JsonError"
                    /\ UNCHANGED result
            /\ UNCHANGED <<try_count, wait_time_s>>
    /\ UNCHANGED <<op, response, requests, responses, waits, cooldowns, reads,
                   uploads, exVars, imVars, dlVars, first>>

UploadBackoffFixed ==
    /\ op = "upload" /\ pc = "sleep"
    /\ waits' = Append(waits, CoolDownSecs)
    /\ pc' = "read"
    /\ UNCHANGED <<op, try_count, response, wait_time_s, result, outcome,
                   requests, responses, cooldowns, reads, uploads, exVars,
                   imVars, dlVars, first>>
UploadBackoffReusingForm ==
    /\ op = "upload" /\ pc = "sleep"
    /\ waits' = Append(waits, wait_time_s)
    /\ pc' = "send"
    /\ UNCHANGED <<op, try_count, response, wait_time_s, result, outcome,
                   requests, responses, cooldowns, reads, uploads, exVars,
                   imVars, dlVars, first>>
\* `sleep(Duration::from_secs(wait_time_s)).await; continue;`
UploadBackoff ==
    /\ op = "upload" /\ pc = "sleep"
    /\ waits' = Append(waits, wait_time_s)
    /\ pc' = "read"
    /\ UNCHANGED <<op, try_count, response, wait_time_s, result, outcome,
                   requests, responses, cooldowns, reads, uploads, exVars,
                   imVars, dlVars, first>>

UploadCoolDownUnlessExhausted(res) ==
    IF res.kind = "Err" THEN <<>> ELSE <<CoolDownSecs>>
\* `sleep(Duration::from_secs(1)).await` between the loop and the match:
\* the sleeps made for a loop result
UploadCoolDownSleeps(res) == <<CoolDownSecs>>

UploadCoolDown ==
    /\ op = "upload" /\ pc = "cooldown"
    /\ cooldowns' = cooldowns \o UploadCoolDownSleeps(result)
    /\ pc' = "match"
    /\ UNCHANGED <<op, try_count, response, wait_time_s, result, outcome,
                   requests, responses, waits, reads, uploads, exVars, imVars,
                   dlVars, first>>

\* `match result { Ok(response) => if let Some(error_msg) = response.error
\*  { Err(..) } else { Ok(()) }, Err(e) => Err(e.into()) }`
UploadMatch(res) ==
    IF res.kind = "Ok"
    THEN IF res.error # "None" THEN "OperationRejected" ELSE "Success"
    ELSE "RetryExhausted"

UploadReturn ==
    /\ op = "upload" /\ pc = "match"
    /\ outcome' = UploadMatch(result)
    /\ pc' = "done"
    /\ UNCHANGED <<op, try_count, response, wait_time_s, result, requests,
                   responses, waits, cooldowns, reads, uploads, exVars, imVars,
                   dlVars, first>>

----------------------------------------------------------------------------
(* SlackClient::add_alias *)

CallAddAlias ==
    /\ op = "add_alias" /\ pc = "idle"
    /\ try_count' = 0
    /\ pc' = "send"
    /\ UNCHANGED <<op, response, wait_time_s, result, outcome, requests,
                   responses, waits, cooldowns, reads, uploads, exVars, imVars,
                   dlVars, first>>

\* `self.client.post(..).multipart(form).send().await?`
AliasSend ==
    /\ op = "add_alias" /\ pc = "send"
    /\ requests' = requests + 1
    /\ \/ /\ pc' = "done" /\ outcome' = "SendError"
          /\ UNCHANGED <<response, responses>>
       \/ \E r \in Responses :
            /\ response' = r
            /\ responses' = Append(responses, r)
            /\ pc' = "response"
            /\ UNCHANGED outcome
    /\ UNCHANGED <<op, try_count, wait_time_s, result, waits, cooldowns,
                   reads, uploads, exVars, imVars, dlVars, first>>

AliasTriesExhaustedLate(tc) == tc > MaxTries
\* `if try_count == 3`
AliasTriesExhausted(tc) == tc = MaxTries

AliasResponse ==
    /\ op = "add_alias" /\ pc = "response"
    /\ IF response.retry_after.present
       THEN IF AliasTriesExhausted(try_count)
            THEN /\ result' = ExhaustedResult
                 /\ pc' = "cooldown"
                 /\ UNCHANGED <<try_count, wait_time_s, outcome>>
            ELSE /\ try_count' = (try_count + 1) % 256
                 /\ LET parsed == ParseU64(response.retry_after.value) IN
                      IF parsed.ok
                      THEN /\ wait_time_s' = parsed.value
                           /\ pc' = "sleep"
                           /\ UNCHANGED outcome
                      ELSE /\ pc' = "done"
                           /\ outcome' = "HeaderError"
                           /\ UNCHANGED wait_time_s
                 /\ UNCHANGED result
       ELSE /\ IF response.body.parses
               THEN /\ result' = OkResult(response.body)
                    /\ pc' = "cooldown"
                    /\ UNCHANGED outcome
               ELSE /\ pc' = "done"
                    /\ outcome' = "JsonError"
                    /\ UNCHANGED result
            /\ UNCHANGED <<try_count, wait_time_s>>
    /\ UNCHANGED <<op, response, requests, responses, waits, cooldowns, reads,
                   uploads, exVars, imVars, dlVars, first>>

\* `sleep(Duration::from_secs(wait_time_s)).await; continue;`
AliasBackoff ==
    /\ op = "add_alias" /\ pc = "sleep"
    /\ waits' = Append(waits, wait_time_s)
    /\ pc' = "send"
    /\ UNCHANGED <<op, try_count, response, wait_time_s, result, outcome,
                   requests, responses, cooldowns, reads, uploads, exVars,
                   imVars, dlVars, first>>

AliasCoolDownUnlessExhausted(res) ==
    IF res.kind = "Err" THEN <<>> ELSE <<CoolDownSecs>>
\* `sleep(Duration::from_secs(1)).await` between the loop and the match
AliasCoolDownSleeps(res) == <<CoolDownSecs>>

AliasCoolDown ==
    /\ op = "add_alias" /\ pc = "cooldown"
    /\ cooldowns' = cooldowns \o AliasCoolDownSleeps(result)
    /\ pc' = "match"
    /\ UNCHANGED <<op, try_count, response, wait_time_s, result, outcome,
                   requests, responses, waits, reads, uploads, exVars, imVars,
                   dlVars, first>>

AliasMatch(res) ==
    IF res.kind = "Ok"
    THEN IF res.error # "None" THEN "OperationRejected" ELSE "Success"
    ELSE "RetryExhausted"

AliasReturn ==
    /\ op = "add_alias" /\ pc = "match"
    /\ outcome' = AliasMatch(result)
    /\ pc' = "done"
    /\ UNCHANGED <<op, try_count, response, wait_time_s, result, requests,
                   responses, waits, cooldowns, reads, uploads, exVars, imVars,
                   dlVars, first>>

----------------------------------------------------------------------------
(* EmojiPaginator::into_stream (crate::emoji): one call of stream.next().  *)
(* A fetched page is yielded record by record before the next page is     *)
(* fetched; a failed fetch yields one Err and ends the sequence; the      *)
(* sequence ends at the end-of-list marker or at an empty batch.          *)
(* Records are numbered 1..total in listing order.                        *)

Min(a, b) == IF a < b THEN a ELSE b

\* the item next() yields: [kind |-> "Ok", rec |-> i], "Err" or "None",
\* with the paginator's state after the call
PaginatorNext(fetchOk) ==
    IF pagState # "active"
    THEN [kind |-> "None", rec |-> 0, state |-> pagState, buf |-> pagBuf,
          last |-> pagLast, fetched |-> 0]
    ELSE IF pagBuf > 0
    THEN [kind |-> "Ok", rec |-> pagYielded + 1, state |-> "active",
          buf |-> pagBuf - 1, last |-> pagLast, fetched |-> 0]
    ELSE IF pagLast
    THEN [kind |-> "None", rec |-> 0, state |-> "exhausted", buf |-> 0,
          last |-> TRUE, fetched |-> 0]
    ELSE IF ~fetchOk
    THEN [kind |-> "Err", rec |-> 0, state |-> "failed", buf |-> 0,
          last |-> FALSE, fetched |-> 1]
    ELSE LET batch == Min(PageSize, total - pagYielded) IN
         IF batch = 0
         THEN [kind |-> "None", rec |-> 0, state |-> "exhausted", buf |-> 0,
               last |-> TRUE, fetched |-> 1]
         ELSE [kind |-> "Ok", rec |-> pagYielded + 1, state |-> "active",
               buf |-> batch - 1, last |-> (pagYielded + batch = total),
               fetched |-> 1]

(* EmojiFile::download_to_directory (crate::archive): Ok(()) once the     *)
(* image is written to the archive, Err when the fetch or the write fails *)
DownloadToDirectoryResults == {"Ok", "Err"}

----------------------------------------------------------------------------
(* actions::export *)

\* lines 18-22: the stream is created and the directory ensured
ExportStart ==
    /\ op = "export" /\ exPc = "start"
    /\ exPc' = "next"
    /\ UNCHANGED <<op, reqVars, exResult, total, pagState, pagBuf, pagLast,
                   pagYielded, fetches, emoji, downloads, dlFailed, reported,
                   imVars, dlVars, first>>

ReportListingFailureNever(n) == n
\* `Err(e) => eprintln!("Failed to fetch emoji list or parse response: {}", e)`
ReportListingFailure(n) == n + 1

\* `while let Some(emoji_result) = stream.next().await { match emoji_result`
ExportNext ==
    /\ op = "export" /\ exPc = "next"
    /\ \E fetchOk \in BOOLEAN :
         LET item == PaginatorNext(fetchOk) IN
           /\ pagState' = item.state
           /\ pagBuf' = item.buf
           /\ pagLast' = item.last
           /\ fetches' = fetches + item.fetched
           /\ CASE item.kind = "Ok" ->
                     /\ emoji' = item.rec
                     /\ pagYielded' = pagYielded + 1
                     /\ exPc' = "download"
                     /\ UNCHANGED <<reported, exResult>>
                [] item.kind = "Err" ->
                     /\ reported' = ReportListingFailure(reported)
                     /\ exPc' = "next"
                     /\ UNCHANGED <<emoji, pagYielded, exResult>>
                [] item.kind = "None" ->
                     /\ exPc' = "done"
                     /\ exResult' = "Ok"
                     /\ UNCHANGED <<emoji, pagYielded, reported>>
    /\ UNCHANGED <<op, reqVars, total, downloads, dlFailed, imVars,
                   dlVars, first>>

ExportDownloadTwice ==
    /\ op = "export" /\ exPc = "download"
    /\ downloads' = Append(Append(downloads, emoji), emoji)
    /\ \E r \in DownloadToDirectoryResults :
         IF r = "Ok"
         THEN /\ exPc' = "next"
              /\ UNCHANGED <<dlFailed, exResult>>
         ELSE /\ dlFailed' = dlFailed \cup {emoji}
              /\ exPc' = "done"
              /\ exResult' = "Err"
    /\ UNCHANGED <<op, reqVars, total, pagState, pagBuf, pagLast, pagYielded,
                   fetches, emoji, reported, imVars, dlVars, first>>
\* `EmojiFile::from(emoji).download_to_directory(..).await?`
ExportDownload ==
    /\ op = "export" /\ exPc = "download"
    /\ downloads' = Append(downloads, emoji)
    /\ \E r \in DownloadToDirectoryResults :
         IF r = "Ok"
         THEN /\ exPc' = "next"
              /\ UNCHANGED <<dlFailed, exResult>>
         ELSE /\ dlFailed' = dlFailed \cup {emoji}
              /\ exPc' = "done"
              /\ exResult' = "Err"
    /\ UNCHANGED <<op, reqVars, total, pagState, pagBuf, pagLast, pagYielded,
                   fetches, emoji, reported, imVars, dlVars, first>>

----------------------------------------------------------------------------
(* actions::import *)

\* names of archive entries
Names == {"seal", "female_elf", "team_mascot", "my_custom_logo"}
\* the standard short codes among Names (the table built by build.rs holds
\* "seal" and "female_elf", see test_emoji_standard_shortcodes)
EMOJI_STANDARD_SHORTCODES == {"seal", "female_elf"}

\* items of emoji_directory.stream_emoji_files(): Ok(EmojiFile) or Err
ScanErr == [ok |-> FALSE, name |-> ""]
ScanItems == {[ok |-> TRUE, name |-> n] : n \in Names} \cup {ScanErr}
Scans == UNION {[1..n -> ScanItems] : n \in 0..MaxEntries}

\* what emoji_directory.exists().await answers
ExistsResults == {"Ok(true)", "Ok(false)", "Err"}

DirectoryCheckIgnoringErr(res) == IF res = "Ok(false)" THEN "panicked" ELSE "scan"
\* `match emoji_directory.exists().await { Ok(false) => panic!(..),
\*  Err(e) => panic!(..), _ => () }`
DirectoryCheck(res) ==
    CASE res = "Ok(false)" -> "panicked"
      [] res = "Err" -> "panicked"
      [] OTHER -> "scan"

ImportCheck ==
    /\ op = "import" /\ imPc = "check"
    /\ imPc' = DirectoryCheck(dirExists)
    /\ UNCHANGED <<op, reqVars, exVars, dlVars, first,
                   imResult, dirExists, scan, scanPos,
                   conflicts>>

ContainsShortcodeNegated(name) == name \notin EMOJI_STANDARD_SHORTCODES
\* `EMOJI_STANDARD_SHORTCODES.contains::<str>(&emoji_file.emoji.name)`
ContainsShortcode(name) == name \in EMOJI_STANDARD_SHORTCODES

\* `while let Some(Ok(emoji_file)) = stream.next().await { if .. { eprintln!;
\*  continue; } }` and the `Ok(())` after the loop
ImportNext ==
    /\ op = "import" /\ imPc = "scan"
    /\ IF scanPos = Len(scan)
       THEN /\ imPc' = "done" /\ imResult' = "Ok"
            /\ UNCHANGED <<scanPos, conflicts>>
       ELSE LET item == scan[scanPos + 1] IN
            /\ scanPos' = scanPos + 1
            /\ IF ~item.ok
               THEN /\ imPc' = "done" /\ imResult' = "Ok"
                    /\ UNCHANGED conflicts
               ELSE /\ conflicts' = IF ContainsShortcode(item.name)
                                    THEN Append(conflicts, item.name)
                                    ELSE conflicts
                    /\ UNCHANGED <<imPc, imResult>>
    /\ UNCHANGED <<op, reqVars, exVars, dlVars, first, dirExists, scan>>

----------------------------------------------------------------------------
(* SlackClient::download *)

\* most chunks a response body is streamed in
MaxChunks == 2
ImageChunks == {"a", "b"}
ImageBodies == UNION {[1..n -> ImageChunks] : n \in 0..MaxChunks}

\* the target path before the call: absent, empty, or written by an
\* earlier export
AbsentFile == [exists |-> FALSE, content |-> <<>>]
FilesBefore ==
    {AbsentFile, [exists |-> TRUE, content |-> <<>>],
     [exists |-> TRUE, content |-> <<"old">>]}

FileOpenedKeepingContent(f) == [exists |-> TRUE, content |-> f.content]
\* `File::create(path)`: creates the file, truncating it if it exists
FileCreated(f) == [exists |-> TRUE, content |-> <<>>]

\* `let mut emoji_file = File::create(path).await?;`
DownloadCreate ==
    /\ op = "download" /\ dlPc = "create"
    /\ \E createOk \in BOOLEAN :
         IF createOk
         THEN /\ file' = FileCreated(file)
              /\ dlPc' = "send"
              /\ UNCHANGED dlResult
         ELSE /\ dlPc' = "done"
              /\ dlResult' = "CreateError"
              /\ UNCHANGED file
    /\ UNCHANGED <<op, reqVars, exVars, imVars, fileBefore, flushed, chunks,
                   errAt, streamPos, first>>

\* `self.client.get(download_url.as_ref()).send().await?.bytes_stream()`
DownloadSend ==
    /\ op = "download" /\ dlPc = "send"
    /\ \E sendOk \in BOOLEAN :
         IF sendOk
         THEN dlPc' = "stream" /\ UNCHANGED dlResult
         ELSE dlPc' = "done" /\ dlResult' = "SendError"
    /\ UNCHANGED <<op, reqVars, exVars, imVars, fileBefore, file, flushed,
                   chunks, errAt, streamPos, first>>

\* `while let Some(Ok(chunk)) = stream.next().await {
\*      emoji_file.write_all(&chunk).await?; }`
DownloadChunk ==
    /\ op = "download" /\ dlPc = "stream"
    /\ IF errAt = streamPos + 1
       THEN \* Some(Err(_)): the pattern does not match, the loop ends
            /\ streamPos' = streamPos + 1
            /\ dlPc' = "flush"
            /\ UNCHANGED <<file, dlResult>>
       ELSE IF streamPos = Len(chunks)
       THEN \* None
            /\ dlPc' = "flush"
            /\ UNCHANGED <<file, dlResult, streamPos>>
       ELSE /\ streamPos' = streamPos + 1
            /\ \E writeOk \in BOOLEAN :
                 IF writeOk
                 THEN /\ file' = [file EXCEPT !.content =
                                     Append(@, chunks[streamPos + 1])]
                      /\ UNCHANGED <<dlPc, dlResult>>
                 ELSE /\ dlPc' = "done"
                      /\ dlResult' = "WriteError"
                      /\ UNCHANGED file
    /\ UNCHANGED <<op, reqVars, exVars, imVars, fileBefore, flushed, chunks,
                   errAt, first>>

\* `emoji_file.flush().await?; Ok(())`
DownloadFlush ==
    /\ op = "download" /\ dlPc = "flush"
    /\ dlPc' = "done"
    /\ \E flushOk \in BOOLEAN :
         IF flushOk
         THEN flushed' = TRUE /\ dlResult' = "Ok"
         ELSE dlResult' = "FlushError" /\ UNCHANGED flushed
    /\ UNCHANGED <<op, reqVars, exVars, imVars, fileBefore, file, chunks, errAt,
                   streamPos, first>>

----------------------------------------------------------------------------
(* The state after the entry point is chosen and before it runs *)

InitReq ==
    /\ pc = "idle" /\ try_count = 0 /\ response = NoResponse
    /\ wait_time_s = 0 /\ result = NoResult /\ outcome = "running"
    /\ requests = 0 /\ responses = <<>> /\ waits = <<>> /\ cooldowns = <<>>
    /\ reads = 0 /\ uploads = <<>>

InitExport ==
    /\ exPc = "start" /\ exResult = "running"
    /\ pagState = "active" /\ pagBuf = 0 /\ pagLast = FALSE /\ pagYielded = 0
    /\ fetches = 0 /\ emoji = 0 /\ downloads = <<>> /\ dlFailed = {}
    /\ reported = 0

InitImport ==
    /\ imPc = "check" /\ imResult = "running"
    /\ scanPos = 0 /\ conflicts = <<>>

InitDownload ==
    /\ dlPc = "create" /\ dlResult = "running"
    /\ fileBefore \in (IF op = "download" THEN FilesBefore ELSE {AbsentFile})
    /\ file = fileBefore /\ flushed = FALSE /\ streamPos = 0

NoFirst ==
    [set |-> FALSE, responses |-> <<>>, requests |-> 0, waits |-> <<>>,
     cooldowns |-> <<>>, outcome |-> "running"]

Init ==
    /\ op \in {"upload", "add_alias", "export", "import", "download"}
    /\ InitReq /\ InitExport /\ InitImport /\ InitDownload
    /\ first = NoFirst
    /\ chunks \in (IF op = "download" THEN ImageBodies ELSE {<<>>})
    /\ errAt \in (IF op = "download" THEN 0..Len(chunks) ELSE {0})
    /\ total \in (IF op = "export" THEN 0..MaxRecords ELSE {0})
    /\ scan \in (IF op = "import" THEN Scans ELSE {<<>>})
    /\ dirExists \in (IF op = "import" THEN ExistsResults ELSE {"Ok(true)"})

Next ==
    \/ CallUpload \/ UploadRead \/ UploadSend \/ UploadResponse
    \/ UploadBackoff \/ UploadCoolDown \/ UploadReturn
    \/ CallAddAlias \/ AliasSend \/ AliasResponse
    \/ AliasBackoff \/ AliasCoolDown \/ AliasReturn
    \/ ExportStart \/ ExportNext \/ ExportDownload
    \/ ImportCheck \/ ImportNext
    \/ DownloadCreate \/ DownloadSend \/ DownloadChunk \/ DownloadFlush

Spec == Init /\ [][Next]_vars

\* the runtime drives the entry point's future to completion: a step that
\* can be taken is eventually taken
FairSpec == Init /\ [][Next]_vars /\ WF_vars(Next)

----------------------------------------------------------------------------
(* upload and add_alias against the same server: the upload call runs     *)
(* first, then add_alias is called and the transport hands it the answers *)
(* it handed to upload, in the same order.                                *)

\* what a finished call did
Summary ==
    [set |-> TRUE, responses |-> responses, requests |-> requests,
     waits |-> waits, cooldowns |-> cooldowns, outcome |-> outcome]

\* the upload call has returned (its reads of the image file succeeded);
\* add_alias is called next
PairSwitch ==
    /\ op = "upload" /\ pc = "done" /\ outcome # "ReadError"
    /\ ~first.set
    /\ first' = Summary
    /\ op' = "add_alias"
    /\ pc' = "idle" /\ try_count' = 0 /\ response' = NoResponse
    /\ wait_time_s' = 0 /\ result' = NoResult /\ outcome' = "running"
    /\ requests' = 0 /\ responses' = <<>> /\ waits' = <<>>
    /\ cooldowns' = <<>> /\ reads' = 0
    /\ UNCHANGED <<uploads, exVars, imVars, dlVars>>

\* the transport has answered add_alias as it answered upload
ReplaysFirst ==
    IF outcome = "SendError"
    THEN first.outcome = "SendError" /\ first.requests = requests
    ELSE /\ Len(responses) <= Len(first.responses)
         /\ responses = SubSeq(first.responses, 1, Len(responses))

PairAliasSend == AliasSend /\ ReplaysFirst'

PairInit == Init /\ op = "upload"

PairNext ==
    \/ CallUpload \/ UploadRead \/ UploadSend \/ UploadResponse
    \/ UploadBackoff \/ UploadCoolDown \/ UploadReturn
    \/ PairSwitch
    \/ CallAddAlias \/ PairAliasSend \/ AliasResponse
    \/ AliasBackoff \/ AliasCoolDown \/ AliasReturn

PairSpec == PairInit /\ [][PairNext]_vars

----------------------------------------------------------------------------
(* Vocabulary of the properties *)

IsThrottle(r) == r.retry_after.present
IsSuccessResponse(r) ==
    ~r.retry_after.present /\ r.body.parses /\ r.body.ok /\ r.body.error = "None"
ThrottledUpTo(n) ==
    Len(responses) >= n /\ \A i \in 1..n : IsThrottle(responses[i])

\* the scan items import has taken so far
Taken == SubSeq(scan, 1, scanPos)
IsReservedEntry(item) == item.ok /\ item.name \in {"seal", "female_elf"}
IsUploadableEntry(item) == item.ok /\ item.name \notin {"seal", "female_elf"}
NamesOf(items) == [i \in 1..Len(items) |-> items[i].name]

----------------------------------------------------------------------------
(* C1: in upload and add_alias, three consecutive throttle responses      *)
(* followed by a success response end in success after exactly 3 backoff  *)
(* waits; four consecutive throttle responses end in RetryExhausted after *)
(* 3 retries and 4 requests, and no fifth request is sent.                *)
C1_ThreeRetriesThenSuccessOrExhausted ==
    /\ (pc = "done" /\ Len(responses) = 4 /\ ThrottledUpTo(3)
          /\ IsSuccessResponse(responses[4]))
       => (outcome = "Success" /\ Len(waits) = 3 /\ requests = 4)
    /\ ThrottledUpTo(4)
       => /\ requests = 4 /\ Len(responses) = 4
          /\ pc # "response" => (Len(waits) = 3 /\ result.kind = "Err")
          /\ pc = "done" => outcome = "RetryExhausted"

C1_Witness ==
    /\ pc = "done" /\ outcome = "Success"
    /\ Len(responses) = 4 /\ ThrottledUpTo(3) /\ Len(waits) = 3

(* C2 as stated: the 1-second cool-down is imposed on the success and the *)
(* OperationRejected paths and is not imposed on the RetryExhausted path. *)
C2_NoCoolDownWhenExhausted ==
    /\ outcome \in {"Success", "OperationRejected"} => cooldowns = <<1>>
    /\ outcome = "RetryExhausted" => cooldowns = <<>>

(* C2, amended: the 1-second cool-down is imposed once, after the loop    *)
(* has resolved, on the success, the OperationRejected and the            *)
(* RetryExhausted paths alike.                                            *)
C2_CoolDownOnEveryLoopResult ==
    /\ outcome \in {"Success", "OperationRejected", "RetryExhausted"}
       => cooldowns = <<1>>
    /\ pc \in {"idle", "read", "send", "response", "sleep", "cooldown"}
       => cooldowns = <<>>

C2_Witness ==
    pc = "done" /\ outcome = "RetryExhausted" /\ cooldowns = <<1>>

(* C3: in export, a download failure for one record does not abort the    *)
(* run: after the failed download the flow asks the listing for the next  *)
(* record and the export has not returned.                                *)
C3_DownloadFailureContinues ==
    [][(exPc = "download" /\ dlFailed' # dlFailed)
         => (exPc' = "next" /\ exResult' = "running")]_vars

(* C4: in import, exactly one upload call is made per non-reserved entry  *)
(* the scan yields.                                                       *)
C4_OneUploadPerNonReservedEntry ==
    (op = "import" /\ imPc = "done")
       => uploads = NamesOf(SelectSeq(Taken, IsUploadableEntry))

(* C5: in import, every entry with a reserved name is skipped with one    *)
(* conflict message and no upload call; an entry with any other name      *)
(* produces no conflict message.                                          *)
C5_ReservedEntrySkipped ==
    op = "import"
       => /\ conflicts = NamesOf(SelectSeq(Taken, IsReservedEntry))
          /\ \A i \in 1..Len(uploads) : uploads[i] \notin {"seal", "female_elf"}

C5_Witness ==
    /\ op = "import" /\ imPc = "done" /\ scanPos = 3
    /\ conflicts = <<"seal", "female_elf">>
    /\ \E i \in 1..3 : scan[i].ok /\ scan[i].name = "my_custom_logo"

(* C6: once a non-throttled response is parsed, the call returns success  *)
(* only if the response has ok = true, and returns OperationRejected      *)
(* whenever the response carries an error.                                *)
C6_SuccessOnlyIfOk ==
    /\ (pc = "done" /\ outcome = "Success") => result.ok
    /\ (pc = "done" /\ result.kind = "Ok" /\ result.error # "None")
       => outcome = "OperationRejected"

(* C7: in export, a page-fetch failure of the listing is reported exactly *)
(* once and the flow ends: no download is attempted after the failure.    *)
C7_ListingFailureReportedOnce ==
    /\ [](pagState = "failed" => (reported = 1 /\ exPc \in {"next", "done"}))
    /\ [](pagState # "failed" => reported = 0)
    /\ [][pagState = "failed"
            => (downloads' = downloads /\ reported' = reported
                /\ exPc' = "done")]_vars

C7_Witness ==
    /\ pagState = "failed" /\ exPc = "done" /\ reported = 1
    /\ Len(downloads) = 2 /\ total = 3

(* C8: when the listing yields a failure, export finishes with an error   *)
(* result.                                                                *)
C8_ListingFailureIsFatal ==
    (exPc = "done" /\ pagState = "failed") => exResult = "Err"

(* C9: in import, when the archive directory does not exist or the        *)
(* existence check fails, the run aborts at once: nothing is scanned, no  *)
(* conflict is reported and no upload is attempted.                       *)
C9_MissingDirectoryAborts ==
    (op = "import" /\ dirExists # "Ok(true)")
       => /\ imPc \in {"check", "panicked"}
          /\ imResult = "running"
          /\ scanPos = 0 /\ conflicts = <<>> /\ uploads = <<>>

C9_Witness ==
    /\ imPc = "panicked" /\ dirExists = "Err"
    /\ Len(scan) > 0 /\ scan[1].ok /\ scan[1].name = "seal"

(* C10: try_count stays within 0..3 in upload and add_alias; a throttle   *)
(* response received with try_count = 3 ends the loop with a failure,     *)
(* without a further retry, and the call returns RetryExhausted.          *)
C10_TryCountBounded ==
    /\ [](try_count \in 0..3)
    /\ [][(pc = "response" /\ IsThrottle(response) /\ try_count = 3)
            => (result'.kind = "Err" /\ pc' = "cooldown"
                /\ try_count' = 3 /\ requests' = requests)]_vars
    /\ []((pc = "done" /\ result.kind = "Err") => outcome = "RetryExhausted")

C10_Witness ==
    /\ op = "add_alias" /\ pc = "done" /\ try_count = 3
    /\ outcome = "RetryExhausted" /\ requests = 4

(* C11: in import, a scan error does not abort the sibling entries: the   *)
(* run ends only once the scan is exhausted, so every entry the scan      *)
(* yields after an error item is still taken and conflict-checked.        *)
C11_ScanErrorDoesNotAbort ==
    (op = "import" /\ imPc = "done")
       => /\ \A i \in 1..Len(scan) : scan[i].ok => i <= scanPos
          /\ conflicts = NamesOf(SelectSeq(scan, IsReservedEntry))

(* C12: in upload and add_alias, the i-th backoff wait lasts exactly the  *)
(* number of seconds in the retry-after header of the i-th response, and  *)
(* request i+1 is sent only after that wait has elapsed.                  *)
C12_WaitIsRetryAfter ==
    /\ [](\A i \in 1..Len(waits) :
             /\ i <= Len(responses) /\ IsThrottle(responses[i])
             /\ ParseU64(responses[i].retry_after.value).ok
             /\ waits[i] = ParseU64(responses[i].retry_after.value).value)
    /\ [](pc = "sleep" => (Len(waits) = requests - 1 /\ IsThrottle(response)))
    /\ [][requests' # requests
            => (requests' = requests + 1 /\ Len(waits) = requests)]_vars

C12_Witness ==
    pc = "done" /\ waits = <<2, 20, 0>> /\ requests = 4

(* C13: export handles the records one at a time in listing order: the    *)
(* downloads attempted so far are records 1, 2, .. k with no repeat and   *)
(* no gap, and a record is asked of the listing only after the download   *)
(* of the one before it has ended.                                        *)
C13_DownloadsInListingOrder ==
    /\ [](downloads = [i \in 1..Len(downloads) |-> i])
    /\ [](Len(downloads) = IF exPc = "download" THEN pagYielded - 1
                           ELSE pagYielded)
    /\ [](exPc = "download" => emoji = pagYielded)
    /\ [][pagYielded' # pagYielded
            => (exPc = "next" /\ Len(downloads) = pagYielded
                /\ pagYielded' = pagYielded + 1)]_vars

C13_Witness ==
    exPc = "done" /\ exResult = "Ok" /\ downloads = <<1, 2, 3>> /\ fetches = 2

(* C14: download returns success only if the complete response body was  *)
(* written to the target file and flushed.                                *)
C14_SuccessOnlyIfComplete ==
    (dlPc = "done" /\ dlResult = "Ok") => (file.content = chunks /\ flushed)

(* C16: in upload, every attempt reads the image file anew: each request  *)
(* is preceded by its own fs::read, and when that read fails the call     *)
(* returns an error without sending a request for that attempt.           *)
C16_OneReadPerAttempt ==
    /\ [](op = "upload"
            => reads = IF pc = "send" \/ outcome = "ReadError"
                       THEN requests + 1 ELSE requests)
    /\ [](outcome = "ReadError" => (pc = "done" /\ cooldowns = <<>>))
    /\ [][(op = "upload" /\ requests' # requests)
            => (pc = "send" /\ reads = requests + 1 /\ reads' = reads)]_vars

C16_Witness ==
    /\ op = "upload" /\ pc = "done" /\ outcome = "ReadError"
    /\ reads = 3 /\ requests = 2 /\ Len(waits) = 2

\* a retry-after value u64::from_str accepts
IsUnsignedDecimal(v) ==
    Len(v) > 0
    /\ \A i \in 1..Len(v) :
         v[i] \in {"0", "1", "2", "3", "4", "5", "6", "7", "8", "9"}
LastResponse == responses[Len(responses)]

(* C18: in upload and add_alias, a transport failure, an unparseable      *)
(* response body, or an invalid retry-after value on a throttle response  *)
(* received before the attempt limit ends the call at once with an error: *)
(* no retry, no further request and no cool-down. A throttle response at  *)
(* the attempt limit fails as RetryExhausted whatever its retry-after     *)
(* value is.                                                              *)
C18_EarlyErrorEndsCall ==
    /\ [](outcome \in {"SendError", "JsonError", "HeaderError"}
            => /\ pc = "done" /\ result.kind = "none"
               /\ cooldowns = <<>> /\ Len(waits) = requests - 1)
    /\ [](requests > Len(responses) => (pc = "done" /\ outcome = "SendError"))
    /\ []((pc # "response" /\ requests = Len(responses) /\ requests > 0
             /\ ~IsThrottle(LastResponse) /\ ~LastResponse.body.parses)
            => (pc = "done" /\ outcome = "JsonError"))
    /\ []((pc # "response" /\ requests = Len(responses) /\ requests \in 1..3
             /\ IsThrottle(LastResponse)
             /\ ~IsUnsignedDecimal(LastResponse.retry_after.value))
            => (pc = "done" /\ outcome = "HeaderError"))
    /\ []((pc # "response" /\ ThrottledUpTo(4))
            => (result.kind = "Err"
                /\ outcome \in {"running", "RetryExhausted"}))
    /\ [][(outcome \in {"SendError", "JsonError", "HeaderError"})
            => UNCHANGED <<requests, waits, cooldowns>>]_vars

C18_Witness ==
    /\ pc = "done" /\ outcome = "HeaderError"
    /\ requests = 3 /\ Len(waits) = 2 /\ cooldowns = <<>>

(* C19: download creates and truncates the target file before the request *)
(* is sent: when the request fails the file exists and is empty, whatever *)
(* it held before.                                                        *)
C19_FileTruncatedBeforeRequest ==
    (dlPc = "send" \/ (dlPc = "done" /\ dlResult = "SendError"))
       => (file.exists /\ file.content = <<>>)

C19_Witness ==
    /\ dlPc = "done" /\ dlResult = "SendError"
    /\ fileBefore.content = <<"old">> /\ file.content = <<>>

(* C15: against the same sequence of server answers, and with the image  *)
(* file reads succeeding, add_alias sends as many requests as upload,     *)
(* sleeps the same backoff waits and the same cool-down, and returns the  *)
(* same kind of outcome.                                                  *)
C15_SameRetryProcedure ==
    first.set
       => /\ pc = "send" => requests < first.requests
          /\ pc = "done"
             => /\ requests = first.requests
                /\ responses = first.responses
                /\ waits = first.waits
                /\ cooldowns = first.cooldowns
                /\ outcome = first.outcome

C15_Witness ==
    /\ first.set /\ pc = "done" /\ outcome = "RetryExhausted"
    /\ waits = <<0, 2, 22>> /\ cooldowns = <<1>>

(* C17 as stated: a call of upload or add_alias returns having sent at    *)
(* least 1 and at most 4 requests and performed at most 3 backoff waits.  *)
C17_OneToFourRequests ==
    pc = "done" => (requests \in 1..4 /\ Len(waits) <= 3)

(* C17, amended: a call of upload or add_alias eventually returns, having *)
(* sent at most 4 requests and performed at most 3 backoff waits; it has  *)
(* sent at least 1 request unless, in upload, the first read of the image *)
(* file failed, in which case it returns an error having sent none.       *)
C17_ReturnsWithinFourRequests ==
    /\ []((op \in {"upload", "add_alias"}) => <>(pc = "done"))
    /\ [](requests <= 4 /\ Len(waits) <= 3)
    /\ []((pc = "done" /\ requests = 0)
            => (op = "upload" /\ outcome = "ReadError" /\ reads = 1))

C17_Witness ==
    /\ op = "upload" /\ pc = "done" /\ outcome = "OperationRejected"
    /\ requests = 4 /\ Len(waits) = 3

====
